---- MODULE Spec2Model ----
(***************************************************************************)
(* A model of the giffy GIF decoder: the LZW bit reader (CodeReader), the  *)
(* LZW decompressor (Decompressor) and the container parser (Parser).      *)
(* Rust vectors are modelled as sequences; a 0-based index i of the source *)
(* is position i + 1 of the sequence.                                      *)
(***************************************************************************)
EXTENDS Integers, Sequences, FiniteSets, TLC

VARIABLES
    \* Decompressor (src/src/decompressor.rs:3-10)
    data_sub_blocks, color_table, lzw_min_code_size, clear_code, code_table, code_size,
    \* CodeReader (src/src/decompressor.rs:209-213)
    data, index, remaining_bits,
    \* locals of decompress / decompress_until_clear
    result, prev,
    \* control position inside decompress and its outcome
    pc, ret, err, colors,
    \* last call of CodeReader::read: its argument and what it returned
    rd_bits, rd_ret,
    \* the (width, value) list a packed input was built from, and what the
    \* successive reads of those widths returned
    packed, values,
    \* how many iterations of the loop of decompress_until_clear are one step
    codes_per_step,
    \* Parser (src/src/parser.rs:126-129): the byte source and how far it is read
    src, pos,
    \* the blocks the bytes of src were put together from, in file order (for a
    \* chain of data sub-blocks on its own: the payloads of its sub-blocks)
    file_blocks,
    \* the byte order of the machine the program is built for
    host_little_endian,
    \* control position inside load / Parser::parse, and what parse returned
    gpc, parse_ret, parse_err,
    \* locals of Parser::parse (lines 137-144)
    header, logical_screen_descriptor, data_blocks,
    \* the frame compositor: next block, pending GCE, frames so far, the buffer
    \* before the previous image was composited, the image being decoded
    block_i, last_gce, frames, snapshot, image,
    \* what load returned
    load_ret, load_err, gif

dvars == <<data_sub_blocks, color_table, lzw_min_code_size, clear_code, code_table, code_size>>
rvars == <<data, index, remaining_bits>>
lvars == <<result, prev>>
ovars == <<pc, ret, err, colors>>
hvars == <<rd_bits, rd_ret>>
pvars == <<packed, values>>
parser_vars == <<src, pos, file_blocks, host_little_endian, parse_ret, parse_err,
                 header, logical_screen_descriptor, data_blocks>>
compositor_vars == <<block_i, last_gce, frames, snapshot, image, load_ret, load_err, gif>>
gvars == <<gpc, parser_vars, compositor_vars>>
vars == <<dvars, rvars, lvars, ovars, hvars, pvars, codes_per_step, gvars>>

-----------------------------------------------------------------------------
(* Bounds of the model                                                     *)

\* longest list of codes an enumerated input stream is packed from
MaxCodes == 3
\* longest byte sequence handed to a stand-alone CodeReader
MaxDataLen == 2
\* longest (width, value) list of the pack/read round trip
MaxPairs == 2
\* most blocks of an enumerated file
MaxBlocks == 2

-----------------------------------------------------------------------------
(* Fixed-width integer helpers (u8 / u16 arithmetic of the source)         *)

Pow2(n) == 2 ^ n

RECURSIVE BitAnd(_, _)
BitAnd(a, b) ==
    IF a = 0 \/ b = 0 THEN 0
    ELSE (a % 2) * (b % 2) + 2 * BitAnd(a \div 2, b \div 2)

RECURSIVE BitOr(_, _)
BitOr(a, b) ==
    IF a = 0 THEN b
    ELSE IF b = 0 THEN a
    ELSE (IF a % 2 = 1 \/ b % 2 = 1 THEN 1 ELSE 0) + 2 * BitOr(a \div 2, b \div 2)

\* !x on u8
Not8(a) == 255 - a
\* x << k on u8 (k < 8): bits shifted out are lost
Shl8(a, k) == (a * Pow2(k)) % 256
\* x << k on u16 (k < 16)
Shl16(a, k) == (a * Pow2(k)) % 65536
\* x >> k
Shr(a, k) == a \div Pow2(k)

-----------------------------------------------------------------------------
(* CodeReader::read                                                        *)

None == [some |-> FALSE, val |-> 0]
Some(v) == [some |-> TRUE, val |-> v]

\* a placement that forgets the bits already accumulated
Place_NoShift(chunk, acc) == chunk

\* where in the u16 result the next chunk of bits is placed (lines 241, 258)
Place(chunk, acc) == Shl16(chunk, acc)

\* a reader that also gives up when the last byte was consumed exactly
RanOut_AtEnd(bits) == TRUE

\* line 252: the data ended and bits of the code are still missing
RanOut(bits) == bits > 0

\* mask of the bits of the current byte that are still unread (lines 235-239)
RemainingMask(rem) == IF rem = 8 THEN 255 ELSE Not8(Shl8(255, rem))

\* mask of the low `bits` bits taken from the current byte (line 258)
LowMask(bits) == Not8(Shl8(255, bits))

\* the loop of read (lines 233-264); d is the data, the rest are the locals
RECURSIVE ReadLoop(_, _, _, _, _, _, _)
ReadLoop(d, idx, rem, bits, byte, res, acc) ==
    IF bits >= rem
    THEN LET res2 == BitOr(res, Place(BitAnd(byte, RemainingMask(rem)), acc))
             acc2 == acc + rem
             bits2 == bits - rem
             idx2 == idx + 1
         IN  IF idx2 < Len(d)
             THEN ReadLoop(d, idx2, 8, bits2, d[idx2 + 1], res2, acc2)
             ELSE IF RanOut(bits2)
                  THEN [ret |-> None, index |-> idx2, remaining_bits |-> 8]
                  ELSE ReadLoop(d, idx2, 8, bits2, byte, res2, acc2)
    ELSE IF bits # 0
         THEN [ret |-> Some(BitOr(res, Place(BitAnd(byte, LowMask(bits)), acc))),
               index |-> idx, remaining_bits |-> rem - bits]
         ELSE [ret |-> Some(res), index |-> idx, remaining_bits |-> rem]

\* a read that leaves the reader where it was when it returns None
Read_KeepsPosition(d, idx, rem, bits) ==
    IF idx >= Len(d)
    THEN [ret |-> None, index |-> idx, remaining_bits |-> rem]
    ELSE LET r == ReadLoop(d, idx, rem, bits, Shr(d[idx + 1], 8 - rem), 0, 0)
         IN  IF r.ret.some THEN r ELSE [ret |-> None, index |-> idx, remaining_bits |-> rem]

\* CodeReader::read(bits) on the reader (d, idx, rem): the value returned and
\* the reader's fields afterwards
Read(d, idx, rem, bits) ==
    IF idx >= Len(d)
    THEN [ret |-> None, index |-> idx, remaining_bits |-> rem]
    ELSE ReadLoop(d, idx, rem, bits, Shr(d[idx + 1], 8 - rem), 0, 0)

-----------------------------------------------------------------------------
(* Decompressor                                                            *)

\* enum CodeValue (lines 203-207)
Indices(s) == [tag |-> "Indices", indices |-> s, code |-> 0]
Single(c) == [tag |-> "Single", indices |-> <<>>, code |-> c]

\* the hard maximum of the code width (lines 101, 146)
MaxCodeSize == 12

\* Decompressor::new, line 22: the clear code of a decompressor
NewClearCode(ct, m) == Len(ct)

\* Decompressor::new, line 24 and reset, line 29: the initial code width (u8)
InitialCodeSize(m) == (m + 1) % 256

\* a reset that creates one singleton per code of the minimum code size
SingletonCount_FromMinCodeSize(ct, m) == Pow2(m)

\* reset, line 32: how many singleton entries a reset creates
SingletonCount(ct, m) == Len(ct)

\* a reset that leaves out the end of information code
ResetTable_NoEndCode(ct, m, clear) ==
    [i \in 1..SingletonCount(ct, m) |-> Indices(<<i - 1>>)] \o <<Single(clear)>>

\* reset, lines 31-37: the dictionary after a reset
ResetTable(ct, m, clear) ==
    [i \in 1..SingletonCount(ct, m) |-> Indices(<<i - 1>>)]
        \o <<Single(clear), Single(clear + 1)>>

\* the entry a 0-based code names; only used with code < Len(table)
Entry(table, code) == table[code + 1]

\* a width rule that compares the length the insertion leaves with (1 << size) - 1
AtWidthLimit_OneEarly(table, size) == Len(table) + 1 = Pow2(size) - 1

\* a width rule that compares after the insertion instead of before it
AtWidthLimit_OneLate(table, size) == Len(table) = Pow2(size)

\* lines 100 and 145: the dictionary is as long as the current width allows
AtWidthLimit(table, size) == Len(table) = Pow2(size) - 1

\* an insertion that goes on widening the codes past 12 bits
Grow_NeverSaturates(table, size, new) ==
    [saturated |-> FALSE,
     code_size |-> IF AtWidthLimit(table, size) THEN size + 1 ELSE size,
     code_table |-> Append(table, Indices(new))]

\* an insertion that never widens the codes
Grow_KeepsWidth(table, size, new) ==
    [saturated |-> FALSE, code_size |-> size, code_table |-> Append(table, Indices(new))]

\* lines 100-110 and 145-155: adding the entry `new` to the dictionary.
\* saturated: the entry is not added and a clear code is expected next.
Grow(table, size, new) ==
    IF AtWidthLimit(table, size)
    THEN IF size = MaxCodeSize
         THEN [saturated |-> TRUE, code_size |-> size, code_table |-> table]
         ELSE [saturated |-> FALSE, code_size |-> size + 1,
               code_table |-> Append(table, Indices(new))]
    ELSE [saturated |-> FALSE, code_size |-> size, code_table |-> Append(table, Indices(new))]

\* line 79: the code names an entry of the dictionary
InTable(current, table) == current < Len(table)

\* lines 126-133: what a code that is not in the dictionary decodes to
UnknownCodeOutput(prev_indices) == Append(prev_indices, prev_indices[1])

\* lines 196-199: the colors the indices name; the indexing panics when an
\* index is not in the color table
IndexInTable(i, ct) == i < Len(ct)
MapColors(res, ct) == [j \in 1..Len(res) |-> ct[res[j] + 1]]

\* an expect_clear_code that takes any code for the clear code
ClearCodeMatches_Any(c, clear) == TRUE

\* expect_clear_code, line 169: the code read is the clear code
ClearCodeMatches(c, clear) == c = clear

\* What decompress returns
Terminated(kind, e) == /\ pc' = "done"
                       /\ ret' = kind
                       /\ err' = e
                       /\ colors' = <<>>

Continue(next) == /\ pc' = next
                  /\ UNCHANGED <<ret, err, colors>>

LastRead(bits, r) == /\ rd_bits' = bits
                     /\ rd_ret' = r.ret
                     /\ index' = r.index
                     /\ remaining_bits' = r.remaining_bits
                     /\ data' = data

\* decompress, lines 183-187: reset and CodeReader::new
DecompressBegin ==
    /\ pc = "start"
    /\ code_size' = InitialCodeSize(lzw_min_code_size)
    /\ code_table' = ResetTable(color_table, lzw_min_code_size, clear_code)
    /\ data' = data_sub_blocks
    /\ index' = 0
    /\ remaining_bits' = 8
    /\ result' = <<>>
    /\ Continue("expect_clear")
    /\ UNCHANGED <<data_sub_blocks, color_table, lzw_min_code_size, clear_code, prev,
                   hvars, pvars, codes_per_step, gvars>>

\* expect_clear_code, lines 167-180, called from decompress (line 188) or, when
\* the dictionary is saturated, from decompress_until_clear (lines 102, 147)
ExpectClearCode ==
    /\ pc \in {"expect_clear", "saturated"}
    /\ LET r == Read(data, index, remaining_bits, code_size)
       IN  /\ LastRead(code_size, r)
           /\ IF r.ret.some
              THEN IF ~ClearCodeMatches(r.ret.val, clear_code)
                   THEN Terminated("Err", "Invalid clear code")
                   ELSE Continue(IF pc = "saturated" THEN "reset" ELSE "first")
              ELSE Terminated("Err", "Missing clear code")
    /\ UNCHANGED <<dvars, lvars, pvars, codes_per_step, gvars>>

\* decompress, line 191: reset after decompress_until_clear returned Ok(true)
Reset ==
    /\ pc = "reset"
    /\ code_size' = InitialCodeSize(lzw_min_code_size)
    /\ code_table' = ResetTable(color_table, lzw_min_code_size, clear_code)
    /\ Continue("first")
    /\ UNCHANGED <<data_sub_blocks, color_table, lzw_min_code_size, clear_code,
                   rvars, lvars, hvars, pvars, codes_per_step, gvars>>

\* decompress_until_clear, lines 45-60: the first code after a reset
UntilClearFirst ==
    /\ pc = "first"
    /\ LET r == Read(data, index, remaining_bits, code_size)
           current == r.ret.val
       IN  /\ LastRead(code_size, r)
           /\ IF ~r.ret.some
              THEN Continue("finish") /\ UNCHANGED lvars
              ELSE IF InTable(current, code_table)
                       /\ Entry(code_table, current).tag = "Indices"
                   THEN /\ result' = result \o Entry(code_table, current).indices
                        /\ prev' = current
                        /\ Continue("loop")
                   ELSE Terminated("Err", "Invalid code") /\ UNCHANGED lvars
    /\ UNCHANGED <<dvars, pvars, codes_per_step, gvars>>

\* The locals and fields the loop of decompress_until_clear works on
LoopState ==
    [code_table |-> code_table, code_size |-> code_size, index |-> index,
     remaining_bits |-> remaining_bits, result |-> result, prev |-> prev,
     pc |-> pc, ret |-> ret, err |-> err, rd_bits |-> rd_bits, rd_ret |-> rd_ret]

\* a return of Err or a panic out of the loop
Leave(s, kind, e) == [s EXCEPT !.pc = "done", !.ret = kind, !.err = e]

\* lines 87-113 and 126-158: the previous code names an entry of indices; new
\* is the entry to add and emitted is what the current code put out
AddEntry(s, current, emitted, new) ==
    LET g == Grow(s.code_table, s.code_size, new)
    IN  [s EXCEPT !.result = s.result \o emitted,
                  !.code_table = g.code_table,
                  !.code_size = g.code_size,
                  !.prev = IF g.saturated THEN s.prev ELSE current,
                  !.pc = IF g.saturated THEN "saturated" ELSE "loop"]

\* decompress_until_clear, lines 62-162: one iteration of the loop, on the data
\* d with the clear code clear
LoopStep(s, d, clear) ==
    LET r == Read(d, s.index, s.remaining_bits, s.code_size)
        current == r.ret.val
        s1 == [s EXCEPT !.index = r.index, !.remaining_bits = r.remaining_bits,
                        !.rd_bits = s.code_size, !.rd_ret = r.ret]
    IN  IF ~r.ret.some
        THEN [s1 EXCEPT !.pc = "finish"]
        ELSE IF InTable(current, s.code_table)
        THEN LET e == Entry(s.code_table, current) IN
             IF e.tag = "Indices"
             THEN IF ~(s.prev < Len(s.code_table))
                  THEN Leave([s1 EXCEPT !.result = s.result \o e.indices],
                             "Panic", "code index out of bounds")
                  ELSE IF Entry(s.code_table, s.prev).tag = "Indices"
                  THEN AddEntry(s1, current, e.indices,
                                Append(Entry(s.code_table, s.prev).indices, e.indices[1]))
                  ELSE Leave([s1 EXCEPT !.result = s.result \o e.indices],
                             "Err", "Invalid prev code type")
             ELSE IF e.code = clear
                  THEN [s1 EXCEPT !.pc = "reset"]
                  ELSE IF e.code = clear + 1
                  THEN [s1 EXCEPT !.pc = "finish"]
                  ELSE Leave(s1, "Err", "Invalid single code")
        ELSE IF ~(s.prev < Len(s.code_table))
             THEN Leave(s1, "Panic", "code index out of bounds")
             ELSE IF Entry(s.code_table, s.prev).tag = "Indices"
             THEN LET output == UnknownCodeOutput(Entry(s.code_table, s.prev).indices)
                  IN  AddEntry(s1, current, output, output)
             ELSE Leave(s1, "Err", "Invalid prev code")

\* up to n iterations of the loop, stopping when the loop is left
RECURSIVE LoopRun(_, _, _, _)
LoopRun(s, d, clear, n) ==
    IF n = 0 \/ s.pc # "loop" THEN s ELSE LoopRun(LoopStep(s, d, clear), d, clear, n - 1)

\* decompress_until_clear, lines 62-162: the next codes_per_step iterations of
\* the loop (the loop runs without interruption; codes_per_step only sets how
\* many of its iterations make one step of the model)
UntilClearLoop ==
    /\ pc = "loop"
    /\ LET s == LoopRun(LoopState, data, clear_code, codes_per_step)
       IN  /\ code_table' = s.code_table
           /\ code_size' = s.code_size
           /\ index' = s.index
           /\ remaining_bits' = s.remaining_bits
           /\ result' = s.result
           /\ prev' = s.prev
           /\ pc' = s.pc
           /\ ret' = s.ret
           /\ err' = s.err
           /\ rd_bits' = s.rd_bits
           /\ rd_ret' = s.rd_ret
           /\ colors' = IF s.pc = "done" THEN <<>> ELSE colors
    /\ UNCHANGED <<data_sub_blocks, color_table, lzw_min_code_size, clear_code, data,
                   pvars, codes_per_step, gvars>>

\* decompress, lines 194-199: decompress_until_clear returned Ok(false)
DecompressReturn ==
    /\ pc = "finish"
    /\ pc' = "done"
    /\ IF \A j \in 1..Len(result) : IndexInTable(result[j], color_table)
       THEN /\ ret' = "Ok"
            /\ err' = ""
            /\ colors' = MapColors(result, color_table)
       ELSE /\ ret' = "Panic"
            /\ err' = "color index out of bounds"
            /\ colors' = <<>>
    /\ UNCHANGED <<dvars, rvars, lvars, hvars, pvars, codes_per_step, gvars>>

Decompress ==
    \/ DecompressBegin
    \/ ExpectClearCode
    \/ Reset
    \/ UntilClearFirst
    \/ UntilClearLoop
    \/ DecompressReturn

-----------------------------------------------------------------------------
(* Inputs                                                                  *)

\* the bits of a width-w code, least significant first
Bits(w, v) == [i \in 1..w |-> (v \div Pow2(i - 1)) % 2]

RECURSIVE AllBits(_)
AllBits(list) ==
    IF list = <<>> THEN <<>>
    ELSE Bits(list[1][1], list[1][2]) \o AllBits(Tail(list))

RECURSIVE ByteOf(_, _, _)
ByteOf(bits, k, j) ==
    IF j = 8 THEN 0
    ELSE (IF 8 * k + j + 1 <= Len(bits) THEN bits[8 * k + j + 1] * Pow2(j) ELSE 0)
         + ByteOf(bits, k, j + 1)

\* GIF's packing of a list of <<width, value>>: codes fill each byte from its
\* least significant bit, a code that spans bytes has its low bits in the
\* earlier byte, the last byte is padded with zero bits
Pack(list) ==
    LET b == AllBits(list)
    IN  [k \in 1..((Len(b) + 7) \div 8) |-> ByteOf(b, k - 1, 0)]

SeqsUpTo(S, n) == UNION {[1..k -> S] : k \in 0..n}

\* a color table of n entries
Palette(n) == [i \in 1..n |-> <<(i - 1) % 256, 0, 255 - ((i - 1) % 256)>>]

\* the values of lzw_min_code_size and the color table lengths tried with each
MinCodeSizes == 2..8
TableLens(m) == {Pow2(m - 1), Pow2(m), Pow2(m + 1)} \cap {Pow2(e) : e \in 1..8}

\* the code values the enumerated streams are made of: the first and last
\* index, the reserved codes of the decompressor and of the GIF format, the
\* next free code and codes beyond it
CodeVals(m, n) ==
    {0, n - 1, n, n + 1, n + 2, n + 3, Pow2(m), Pow2(m) + 1} \cap (0..(Pow2(m + 1) - 1))

\* a stream of codes, each packed at the initial code width of m
Stream(m, codes) == Pack([i \in 1..Len(codes) |-> <<m + 1, codes[i]>>])

\* the streams with a clear code in their middle: the leading clear code, two
\* codes, the clear code of a table of n colors again, and one more code
ClearStreams(m, n) ==
    {<<n>> \o before \o <<n>> \o after :
        before \in [1..2 -> CodeVals(m, n)], after \in [1..1 -> CodeVals(m, n)]}

\* the fixture of test_decompressor_decompress (lines 299-417)
S2Data ==
    <<140, 45, 153, 135, 42, 28, 220, 51, 160, 2, 117, 236, 149, 250, 168, 222, 96, 140, 4,
      145, 76, 1>>
S2Palette == <<<<255, 255, 255>>, <<255, 0, 0>>, <<0, 0, 255>>, <<0, 0, 0>>>>
S2Expected == <<
    <<255, 0, 0>>, <<255, 0, 0>>, <<255, 0, 0>>, <<255, 0, 0>>, <<255, 0, 0>>,
    <<0, 0, 255>>, <<0, 0, 255>>, <<0, 0, 255>>, <<0, 0, 255>>, <<0, 0, 255>>,
    <<255, 0, 0>>, <<255, 0, 0>>, <<255, 0, 0>>, <<255, 0, 0>>, <<255, 0, 0>>,
    <<0, 0, 255>>, <<0, 0, 255>>, <<0, 0, 255>>, <<0, 0, 255>>, <<0, 0, 255>>,
    <<255, 0, 0>>, <<255, 0, 0>>, <<255, 0, 0>>, <<255, 0, 0>>, <<255, 0, 0>>,
    <<0, 0, 255>>, <<0, 0, 255>>, <<0, 0, 255>>, <<0, 0, 255>>, <<0, 0, 255>>,
    <<255, 0, 0>>, <<255, 0, 0>>, <<255, 0, 0>>, <<255, 255, 255>>, <<255, 255, 255>>,
    <<255, 255, 255>>, <<255, 255, 255>>, <<0, 0, 255>>, <<0, 0, 255>>, <<0, 0, 255>>,
    <<255, 0, 0>>, <<255, 0, 0>>, <<255, 0, 0>>, <<255, 255, 255>>, <<255, 255, 255>>,
    <<255, 255, 255>>, <<255, 255, 255>>, <<0, 0, 255>>, <<0, 0, 255>>, <<0, 0, 255>>,
    <<0, 0, 255>>, <<0, 0, 255>>, <<0, 0, 255>>, <<255, 255, 255>>, <<255, 255, 255>>,
    <<255, 255, 255>>, <<255, 255, 255>>, <<255, 0, 0>>, <<255, 0, 0>>, <<255, 0, 0>>,
    <<0, 0, 255>>, <<0, 0, 255>>, <<0, 0, 255>>, <<255, 255, 255>>, <<255, 255, 255>>,
    <<255, 255, 255>>, <<255, 255, 255>>, <<255, 0, 0>>, <<255, 0, 0>>, <<255, 0, 0>>,
    <<0, 0, 255>>, <<0, 0, 255>>, <<0, 0, 255>>, <<0, 0, 255>>, <<0, 0, 255>>,
    <<255, 0, 0>>, <<255, 0, 0>>, <<255, 0, 0>>, <<255, 0, 0>>, <<255, 0, 0>>,
    <<0, 0, 255>>, <<0, 0, 255>>, <<0, 0, 255>>, <<0, 0, 255>>, <<0, 0, 255>>,
    <<255, 0, 0>>, <<255, 0, 0>>, <<255, 0, 0>>, <<255, 0, 0>>, <<255, 0, 0>>,
    <<0, 0, 255>>, <<0, 0, 255>>, <<0, 0, 255>>, <<0, 0, 255>>, <<0, 0, 255>>,
    <<255, 0, 0>>, <<255, 0, 0>>, <<255, 0, 0>>, <<255, 0, 0>>, <<255, 0, 0>>
    >>

\* no file is being loaded: the decompressor or the reader is used on its own
NoFile ==
    /\ src = <<>>
    /\ file_blocks = <<>>
    /\ pos = 0
    /\ host_little_endian = TRUE
    /\ gpc = "none"
    /\ parse_ret = "none"
    /\ parse_err = ""
    /\ header = <<>>
    /\ logical_screen_descriptor = <<>>
    /\ data_blocks = <<>>
    /\ block_i = 0
    /\ last_gce = [some |-> FALSE, val |-> <<>>]
    /\ frames = <<>>
    /\ snapshot = [some |-> FALSE, val |-> <<>>]
    /\ image = <<>>
    /\ load_ret = "none"
    /\ load_err = ""
    /\ gif = <<>>

\* the state after Decompressor::new(d, ct, m); n sets codes_per_step
NewStepping(d, ct, m, n) ==
    /\ NoFile
    /\ codes_per_step = n
    /\ data_sub_blocks = d
    /\ color_table = ct
    /\ lzw_min_code_size = m
    /\ clear_code = NewClearCode(ct, m)
    /\ code_table = <<>>
    /\ code_size = InitialCodeSize(m)
    /\ data = <<>>
    /\ index = 0
    /\ remaining_bits = 8
    /\ result = <<>>
    /\ prev = 0
    /\ pc = "start"
    /\ ret = "none"
    /\ err = ""
    /\ colors = <<>>
    /\ rd_bits = 0
    /\ rd_ret = None
    /\ packed = <<>>
    /\ values = <<>>

New(d, ct, m) == NewStepping(d, ct, m, 1)

Init ==
    \/ New(S2Data, S2Palette, 2)
    \/ \E m \in MinCodeSizes :
         \E n \in TableLens(m) :
           \E codes \in SeqsUpTo(CodeVals(m, n), MaxCodes), lead \in {<<>>, <<n>>} :
             New(Stream(m, lead \o codes), Palette(n), m)
    \/ \E m \in MinCodeSizes :
         \E n \in TableLens(m) :
           \E codes \in ClearStreams(m, n) : New(Stream(m, codes), Palette(n), m)

Next == Decompress

Spec == Init /\ [][Next]_vars

-----------------------------------------------------------------------------
(* Claims about Decompressor::decompress, checked under Spec               *)

\* the code the next call of read(code_size) returns
NextCode == Read(data, index, remaining_bits, code_size).ret

\* the first code of the input, read at width lzw_min_code_size + 1
FirstCode == Read(data_sub_blocks, 0, 8, lzw_min_code_size + 1).ret

IsS2Run == /\ data_sub_blocks = S2Data
           /\ color_table = S2Palette
           /\ lzw_min_code_size = 2

\* C1: decompressing the S2 fixture (min code size 2, the 4-entry palette, the
\* 22 bytes of the test) succeeds and returns exactly the 100 colors of the
\* test's reference vector, position by position.
C1_S2FixtureDecodes ==
    (IsS2Run /\ pc = "done") =>
        /\ ret = "Ok"
        /\ Len(colors) = 100
        /\ colors = S2Expected

C1_Witness == IsS2Run /\ pc = "done" /\ ret = "Ok" /\ Len(colors) = 100

\* the dictionary the GIF format prescribes after a reset for min code size m
FormatResetTable(m) ==
    [i \in 1..Pow2(m) |-> Indices(<<i - 1>>)] \o <<Single(Pow2(m)), Single(Pow2(m) + 1)>>

\* C3: after every dictionary reset, for every lzw_min_code_size m in 2..8 and
\* every color table, the dictionary holds exactly the 2^m singletons
\* [0]..[2^m - 1], CLEAR is the code 2^m and END_OF_INFORMATION the code
\* 2^m + 1, whatever the number of colors in the table.
C3_ReservedCodesFromMinCodeSize ==
    (pc \in {"expect_clear", "first"} /\ lzw_min_code_size \in 2..8) =>
        /\ clear_code = Pow2(lzw_min_code_size)
        /\ code_table = FormatResetTable(lzw_min_code_size)

\* the color table has the 2^lzw_min_code_size entries the format pairs with
\* the minimum code size
TableFitsMinCodeSize == Len(color_table) = Pow2(lzw_min_code_size)

\* C4: in the loop of decompress_until_clear a code strictly greater than the
\* current dictionary length makes decompress return an error (and only a
\* code equal to the length is decoded from the previous entry). Stated for
\* color tables of 2^lzw_min_code_size entries.
C4_UnknownCodeRejected ==
    [][(TableFitsMinCodeSize /\ pc = "loop" /\ NextCode.some
          /\ NextCode.val > Len(code_table))
          => (pc' = "done" /\ ret' = "Err")]_vars

\* C5: when the bit stream ends where a code is expected (read returns None
\* before END_OF_INFORMATION has been read), decompress returns an error and
\* not a successful, shorter result. Stated for color tables of
\* 2^lzw_min_code_size entries.
C5_TruncatedStreamIsError ==
    (TableFitsMinCodeSize /\ pc = "done" /\ rd_bits > 0 /\ ~rd_ret.some) => ret = "Err"

\* C7: the first code of the stream, read at width lzw_min_code_size + 1, must
\* be the decompressor's clear code: when it is another value, or the data
\* holds no complete first code, decompress returns an error and has emitted
\* nothing.
C7_FirstCodeMustBeClear ==
    (pc \notin {"start", "expect_clear"}
       /\ (~FirstCode.some \/ FirstCode.val # clear_code)) =>
        /\ pc = "done"
        /\ ret = "Err"
        /\ result = <<>>
        /\ colors = <<>>

C7_Witness ==
    /\ pc = "done"
    /\ ret = "Err"
    /\ Len(data_sub_blocks) > 0
    /\ FirstCode.some
    /\ FirstCode.val # clear_code
    /\ clear_code = Pow2(lzw_min_code_size)

\* C8: every palette index decompress emits is strictly less than the length
\* of the color table, so a successful decompress mapped every index through
\* the table without reading outside it.
C8_IndicesInColorTable ==
    /\ \A j \in 1..Len(result) : result[j] < Len(color_table)
    /\ ~(ret = "Panic" /\ err = "color index out of bounds")
    /\ (pc = "done" /\ ret = "Ok") =>
          /\ Len(colors) = Len(result)
          /\ \A j \in 1..Len(result) : colors[j] = color_table[result[j] + 1]

C8_Witness ==
    /\ pc = "done"
    /\ ret = "Ok"
    /\ Len(result) > 1
    /\ Len(color_table) < Pow2(lzw_min_code_size)

-----------------------------------------------------------------------------
(* A stand-alone CodeReader: any reads on any data                         *)

ByteVals == {0, 255, 93, 182}
ReadWidths == 1..12

\* values of a given width: all zeros, all ones, one bit, alternating bits
SampleVals(w) == {0, Pow2(w) - 1, Pow2(w - 1), 1365 % Pow2(w), 2730 % Pow2(w)}
Pairs == UNION {{<<w, v>> : v \in SampleVals(w)} : w \in ReadWidths}

\* the state after CodeReader::new(d) (lines 216-222); no decompressor exists
NewReader(d, list) ==
    /\ NoFile
    /\ data = d
    /\ index = 0
    /\ remaining_bits = 8
    /\ rd_bits = 0
    /\ rd_ret = None
    /\ packed = list
    /\ values = <<>>
    /\ data_sub_blocks = <<>>
    /\ color_table = <<>>
    /\ lzw_min_code_size = 0
    /\ clear_code = 0
    /\ code_table = <<>>
    /\ code_size = 0
    /\ result = <<>>
    /\ prev = 0
    /\ pc = "reader"
    /\ ret = "none"
    /\ err = ""
    /\ colors = <<>>
    /\ codes_per_step = 1

\* a call of read(bits) on the reader
CallRead(bits) ==
    LET r == Read(data, index, remaining_bits, bits)
    IN  /\ rd_bits' = bits
        /\ rd_ret' = r.ret
        /\ index' = r.index
        /\ remaining_bits' = r.remaining_bits
        /\ data' = data

ReaderRead ==
    /\ pc = "reader"
    /\ \E w \in ReadWidths : CallRead(w)
    /\ UNCHANGED <<dvars, lvars, ovars, pvars, codes_per_step, gvars>>

InitReader == \E d \in SeqsUpTo(ByteVals, MaxDataLen) : NewReader(d, <<>>)

NextReader == ReaderRead

SpecReader == InitReader /\ [][NextReader]_vars

\* the bits of the data no read has consumed
UnreadBits(d, idx, rem) == IF idx >= Len(d) THEN 0 ELSE rem + 8 * (Len(d) - idx - 1)

\* C9: for every byte sequence, reader position and width in 1..12,
\* read(width) returns None exactly when fewer than width unread bits remain,
\* and Some value otherwise.
C9_NoneIffTooFewBits ==
    [][ReaderRead =>
         ((~rd_ret'.some) <=> (UnreadBits(data, index, remaining_bits) < rd_bits'))]_vars

\* a read of 12 bits that took exactly the last bits of the data, mid-byte start
C9_Witness ==
    /\ pc = "reader"
    /\ rd_bits = 12
    /\ rd_ret.some
    /\ index = Len(data)
    /\ Len(data) = 2

-----------------------------------------------------------------------------
(* The pack / read round trip                                              *)

\* the next read of the round trip: the width of the next packed pair
PackedRead ==
    /\ pc = "reader"
    /\ Len(values) < Len(packed)
    /\ CallRead(packed[Len(values) + 1][1])
    /\ values' = Append(values, rd_ret')
    /\ UNCHANGED <<dvars, lvars, ovars, packed, codes_per_step, gvars>>

InitPack == \E list \in SeqsUpTo(Pairs, MaxPairs) : NewReader(Pack(list), list)

NextPack == PackedRead

SpecPack == InitPack /\ [][NextPack]_vars

\* C10: packing any list of (width, value) pairs, 1 <= width <= 12 and
\* value < 2^width, LSB-first and reading it back with successive
\* read(width) calls yields the original values in order.
C10_PackReadRoundTrip ==
    pc = "reader" =>
        \A i \in 1..Len(values) : values[i] = Some(packed[i][2])

\* a round trip whose second code spans a byte boundary
C10_Witness ==
    /\ pc = "reader"
    /\ Len(packed) = 2
    /\ Len(values) = 2
    /\ packed[1][1] = 5
    /\ packed[2][1] = 12
    /\ packed[2][2] = 2730

-----------------------------------------------------------------------------
(* Streams that fill the dictionary                                        *)

RECURSIVE BitsOfWidths(_, _)
\* the bits of the codes read at the widths a..b when every code adds an entry:
\* 2^(w-1) codes are read at width w
BitsOfWidths(a, b) == IF a > b THEN 0 ELSE a * Pow2(a - 1) + BitsOfWidths(a + 1, b)

\* For lzw_min_code_size 2 and 4 colors: the bit offset of the code that is
\* read when the dictionary holds 2^12 - 1 entries, in a stream of a clear
\* code followed by data codes only (4 codes at width 3, then 2^(w-1) codes at
\* each width w in 4..11, then 2^11 - 1 codes at width 12).
SatBitOffset ==
    4 * 3 + BitsOfWidths(4, MaxCodeSize - 1) + MaxCodeSize * (Pow2(MaxCodeSize - 1) - 1)

\* a clear code, zero codes up to SatBitOffset, then the codes of tail
SatData(tail) ==
    LET pad == IF SatBitOffset % 8 = 0 THEN <<>> ELSE <<<<SatBitOffset % 8, 0>>>>
    IN  <<4>> \o [i \in 1..((SatBitOffset \div 8) - 1) |-> 0] \o Pack(pad \o tail)

\* what follows the zero codes: the code read with the dictionary full, then
\* the code read by expect_clear_code, then the rest of the stream
SatTails ==
    { <<<<12, 0>>, <<12, 4>>, <<3, 1>>, <<3, 5>>>>,     \* data, CLEAR, data, EOI
      <<<<12, 4095>>, <<12, 4>>, <<3, 1>>, <<3, 5>>>>,  \* next free code, CLEAR, data, EOI
      <<<<12, 0>>, <<12, 5>>>>,                         \* data, EOI
      <<<<12, 0>>, <<12, 0>>>>,                         \* data, data
      <<<<12, 0>>, <<12, 4095>>>>,                      \* data, next free code
      <<<<12, 0>>>>,                                    \* data, end of the stream
      <<<<12, 5>>>>,                                    \* EOI
      <<<<12, 4>>, <<3, 1>>, <<3, 5>>>> }               \* CLEAR, data, EOI

\* the iterations of the loop that make one step while the dictionary fills
SatBurst == 128

InitSat == \E tail \in SatTails : NewStepping(SatData(tail), Palette(4), 2, SatBurst)

SpecSat == InitSat /\ [][Next]_vars

\* C6: when the code width is 12 and an entry is due while the dictionary is
\* saturated (it holds 2^12 - 1 entries and the entry is not added), the next
\* code read must be the clear code, after which the dictionary is reset and
\* decoding continues with the first code after a reset; any other code
\* (END_OF_INFORMATION or a data code included), or the end of the data,
\* makes decompress return an error.
C6_SaturationRequiresClear ==
    [][/\ pc = "saturated" =>
            /\ code_size = MaxCodeSize
            /\ Len(code_table) = Pow2(MaxCodeSize) - 1
            /\ IF NextCode.some /\ NextCode.val = clear_code
               THEN pc' = "reset"
               ELSE pc' = "done" /\ ret' = "Err"
       /\ pc = "reset" =>
            /\ pc' = "first"
            /\ code_size' = lzw_min_code_size + 1
            /\ code_table' = ResetTable(color_table, lzw_min_code_size, clear_code)
            /\ result' = result]_vars

\* decoding went on after a saturation, a clear code and the reset
C6_Witness ==
    /\ pc = "done"
    /\ ret = "Ok"
    /\ Len(result) > Pow2(MaxCodeSize) - 10
    /\ Len(code_table) < 10
    /\ result[Len(result)] = 1

-----------------------------------------------------------------------------
(* Parser (src/src/parser.rs)                                              *)

\* Result<_, String> of the parser's functions, with the source position after
\* the call; kind "Panic" is an unwrap() on an Err
Okv(v, p) == [ok |-> TRUE, kind |-> "Ok", err |-> "", arg |-> 0, pos |-> p, val |-> v]
Fail(kind, msg, x) == [ok |-> FALSE, kind |-> kind, err |-> msg, arg |-> x, pos |-> 0, val |-> <<>>]
Propagate(r) == Fail(r.kind, r.err, r.arg)

\* the operator ? on a Result: an Err is returned at once, an Ok goes on to K
Bind(r, K(_)) == IF r.ok THEN K(r) ELSE Propagate(r)

\* a read that takes the bytes there are and leaves the rest of the buffer zero
read_bytes_Partial(s, p, n) ==
    IF p + n <= Len(s)
    THEN Okv(SubSeq(s, p + 1, p + n), p + n)
    ELSE Okv(SubSeq(s, p + 1, Len(s)) \o [j \in 1..(p + n - Len(s)) |-> 0], Len(s))

\* read_bytes, lines 193-197: read_exact fills the whole buffer or fails
read_bytes(s, p, n) ==
    IF p + n <= Len(s)
    THEN Okv(SubSeq(s, p + 1, p + n), p + n)
    ELSE Fail("Err", "Error: failed to fill whole buffer", 0)

\* read_u8, lines 199-203
read_u8(s, p) == Bind(read_bytes(s, p, 1), LAMBDA r : Okv(r.val[1], r.pos))

\* the two bytes taken high byte first whatever the machine
Transmute_HighFirst(buffer, le) == 256 * buffer[1] + buffer[2]

\* mem::transmute::<[u8; 2], u16>, line 208: the two bytes in the byte order of
\* the machine
Transmute(buffer, le) ==
    IF le THEN buffer[1] + 256 * buffer[2] ELSE 256 * buffer[1] + buffer[2]

\* read_u16, lines 205-209
read_u16(s, p, le) == Bind(read_bytes(s, p, 2), LAMBDA r : Okv(Transmute(r.val, le), r.pos))

\* std::str::from_utf8 / String::from_utf8 succeed exactly on well-formed UTF-8
RECURSIVE Utf8Valid(_)
Utf8Valid(b) ==
    LET Cont(i, lo, hi) == i <= Len(b) /\ b[i] >= lo /\ b[i] <= hi
        Rest(n) == Utf8Valid(SubSeq(b, n + 1, Len(b)))
    IN  IF b = <<>> THEN TRUE
        ELSE IF b[1] <= 127 THEN Rest(1)
        ELSE IF b[1] >= 194 /\ b[1] <= 223 THEN Cont(2, 128, 191) /\ Rest(2)
        ELSE IF b[1] = 224 THEN Cont(2, 160, 191) /\ Cont(3, 128, 191) /\ Rest(3)
        ELSE IF b[1] = 237 THEN Cont(2, 128, 159) /\ Cont(3, 128, 191) /\ Rest(3)
        ELSE IF b[1] >= 225 /\ b[1] <= 239
             THEN Cont(2, 128, 191) /\ Cont(3, 128, 191) /\ Rest(3)
        ELSE IF b[1] = 240
             THEN Cont(2, 144, 191) /\ Cont(3, 128, 191) /\ Cont(4, 128, 191) /\ Rest(4)
        ELSE IF b[1] >= 241 /\ b[1] <= 243
             THEN Cont(2, 128, 191) /\ Cont(3, 128, 191) /\ Cont(4, 128, 191) /\ Rest(4)
        ELSE IF b[1] = 244
             THEN Cont(2, 128, 143) /\ Cont(3, 128, 191) /\ Cont(4, 128, 191) /\ Rest(4)
        ELSE FALSE

\* the signature compared in lower case
GIF_LowerCase == <<103, 105, 102>>

\* the literal "GIF" of line 138
GIF == <<71, 73, 70>>

\* read_header, lines 229-242
read_header(s, p) ==
    Bind(read_bytes(s, p, 6), LAMBDA r :
        IF ~Utf8Valid(SubSeq(r.val, 1, 3)) \/ ~Utf8Valid(SubSeq(r.val, 4, 6))
        THEN Fail("Err", "Error: invalid utf-8 sequence", 0)
        ELSE Okv([sig |-> SubSeq(r.val, 1, 3), version |-> SubSeq(r.val, 4, 6)], r.pos))

\* Option
NoneOf == [some |-> FALSE, val |-> <<>>]
SomeOf(v) == [some |-> TRUE, val |-> v]

\* table.chunks_exact(3).map(|a| Color(a[0], a[1], a[2])), lines 287-290, 330-333
Chunks3(table) ==
    [j \in 1..(Len(table) \div 3) |-> <<table[3 * j - 2], table[3 * j - 1], table[3 * j]>>]

\* 3 * (1 << (size + 1)), lines 283 and 326
ColorTableBytes(size) == 3 * Pow2(size + 1)

\* the color table that follows a descriptor when its flag is set,
\* lines 282-292 and 325-337
read_color_table(s, p, flag, size) ==
    IF ~flag THEN Okv(NoneOf, p)
    ELSE Bind(read_bytes(s, p, ColorTableBytes(size)), LAMBDA r :
             Okv(SomeOf(Chunks3(r.val)), r.pos))

\* the pixel aspect ratio of lines 273-280, as a fraction <<numerator, denominator>>
PixelAspectRatio(val) == IF val = 0 THEN <<0, 1>> ELSE <<val + 15, 64>>

\* read_logical_screen_descriptor, lines 244-295
read_logical_screen_descriptor(s, p, le) ==
    Bind(read_u16(s, p, le), LAMBDA w :
    Bind(read_u16(s, w.pos, le), LAMBDA h :
    Bind(read_u8(s, h.pos), LAMBDA f :
    Bind(read_u8(s, f.pos), LAMBDA b :
    Bind(read_u8(s, b.pos), LAMBDA a :
    Bind(read_color_table(s, a.pos, Shr(f.val, 7) = 1, BitAnd(f.val, 7)), LAMBDA t :
        Okv([width |-> w.val,
             height |-> h.val,
             global_color_table_flag |-> Shr(f.val, 7) = 1,
             color_resolution |-> Shr(BitAnd(f.val, 112), 4),
             sort_flag |-> Shr(BitAnd(f.val, 8), 3) = 1,
             global_color_table_size |-> BitAnd(f.val, 7),
             background_color_index |-> b.val,
             pixel_aspect_ratio |-> PixelAspectRatio(a.val),
             global_color_table |-> t.val], t.pos)))))))

\* the label of a graphic control extension taken for that of a comment
ExtensionType_GceAsComment(x) ==
    IF x = 249 \/ x = 254 THEN [tag |-> "CommentExtension", x |-> 0]
    ELSE IF x = 1 THEN [tag |-> "PlainTextExtension", x |-> 0]
    ELSE IF x = 255 THEN [tag |-> "ApplicationExtension", x |-> 0]
    ELSE [tag |-> "UnknownExtension", x |-> x]

\* the match of lines 214-220 on the byte after 0x21
ExtensionType(x) ==
    IF x = 249 THEN [tag |-> "GraphicControlExtension", x |-> 0]
    ELSE IF x = 254 THEN [tag |-> "CommentExtension", x |-> 0]
    ELSE IF x = 1 THEN [tag |-> "PlainTextExtension", x |-> 0]
    ELSE IF x = 255 THEN [tag |-> "ApplicationExtension", x |-> 0]
    ELSE [tag |-> "UnknownExtension", x |-> x]

\* read_block_type, lines 211-227
read_block_type(s, p) ==
    Bind(read_u8(s, p), LAMBDA t :
        IF t.val = 44 THEN Okv([tag |-> "TableBasedImage", x |-> 0], t.pos)
        ELSE IF t.val = 33
             THEN Bind(read_u8(s, t.pos), LAMBDA e : Okv(ExtensionType(e.val), e.pos))
        ELSE IF t.val = 59 THEN Okv([tag |-> "Trailer", x |-> 0], t.pos)
        ELSE Okv([tag |-> "Unknown", x |-> t.val], t.pos))

\* a reader that returns after the first sub-block and leaves the rest of the
\* chain unread
read_data_sub_blocks_FirstOnly(s, p) ==
    Bind(read_u8(s, p), LAMBDA block_size :
        IF block_size.val = 0 THEN Okv(<<>>, block_size.pos)
        ELSE Bind(read_bytes(s, block_size.pos, block_size.val), LAMBDA d :
                 Okv(d.val, d.pos)))

\* read_data_sub_blocks, lines 351-369
RECURSIVE SubBlocksLoop(_, _, _)
SubBlocksLoop(s, p, sub_blocks) ==
    Bind(read_u8(s, p), LAMBDA block_size :
        IF block_size.val = 0 THEN Okv(sub_blocks, block_size.pos)
        ELSE Bind(read_bytes(s, block_size.pos, block_size.val), LAMBDA d :
                 SubBlocksLoop(s, d.pos, sub_blocks \o d.val)))

read_data_sub_blocks(s, p) == SubBlocksLoop(s, p, <<>>)

\* read_image_descriptor, lines 297-321
read_image_descriptor(s, p, le) ==
    Bind(read_u16(s, p, le), LAMBDA l :
    Bind(read_u16(s, l.pos, le), LAMBDA t :
    Bind(read_u16(s, t.pos, le), LAMBDA w :
    Bind(read_u16(s, w.pos, le), LAMBDA h :
    Bind(read_u8(s, h.pos), LAMBDA f :
        Okv([left |-> l.val,
             top |-> t.val,
             width |-> w.val,
             height |-> h.val,
             local_color_table_flag |-> Shr(f.val, 7) = 1,
             interlace_flag |-> Shr(BitAnd(f.val, 64), 6) = 1,
             sort_flag |-> Shr(BitAnd(f.val, 32), 5) = 1,
             local_color_table_size |-> BitAnd(f.val, 7)], f.pos))))))

\* read_table_based_image, lines 323-349
read_table_based_image(s, p, le) ==
    Bind(read_image_descriptor(s, p, le), LAMBDA image_descriptor :
    Bind(read_color_table(s, image_descriptor.pos,
                          image_descriptor.val.local_color_table_flag,
                          image_descriptor.val.local_color_table_size),
         LAMBDA local_color_table :
    Bind(read_u8(s, local_color_table.pos), LAMBDA m :
    Bind(read_data_sub_blocks(s, m.pos), LAMBDA d :
        Okv([tag |-> "TableBasedImage",
             image_descriptor |-> image_descriptor.val,
             local_color_table |-> local_color_table.val,
             image_data |-> [lzw_min_code_size |-> m.val,
                             data_sub_blocks |-> d.val]], d.pos)))))

\* read_application_extension, lines 371-399
read_application_extension(s, p) ==
    Bind(read_u8(s, p), LAMBDA block_size :
        IF block_size.val # 11
        THEN Fail("Err", "Error: invalid Application Extension block size", block_size.val)
        ELSE
    Bind(read_bytes(s, block_size.pos, 8), LAMBDA id :
        IF ~Utf8Valid(id.val) THEN Fail("Panic", "called unwrap() on an Err value", 0)
        ELSE
    Bind(read_bytes(s, id.pos, 3), LAMBDA auth_code :
        IF ~Utf8Valid(auth_code.val) THEN Fail("Panic", "called unwrap() on an Err value", 0)
        ELSE
    Bind(read_data_sub_blocks(s, auth_code.pos), LAMBDA d :
        Okv([tag |-> "ApplicationExtension",
             id |-> id.val,
             auth_code |-> auth_code.val,
             data_sub_blocks |-> d.val], d.pos)))))

\* read_comment_extension, lines 401-405
read_comment_extension(s, p) ==
    Bind(read_data_sub_blocks(s, p), LAMBDA d :
        IF ~Utf8Valid(d.val) THEN Fail("Err", "Error: invalid utf-8 sequence", 0)
        ELSE Okv([tag |-> "CommentExtension", text |-> d.val], d.pos))

\* the match of lines 417-426 on a value of 0..7
DisposalMethod(x) ==
    IF x = 0 THEN "Unspecified"
    ELSE IF x = 1 THEN "DoNotDispose"
    ELSE IF x = 2 THEN "RestoreToBackgroundColor"
    ELSE IF x = 3 THEN "RestoreToPrevious"
    ELSE "Undefined"

\* read_graphic_control_extension, lines 407-445
read_graphic_control_extension(s, p, le) ==
    Bind(read_u8(s, p), LAMBDA block_size :
        IF block_size.val # 4
        THEN Fail("Err", "Error: invalid Graphic Control Extension block size", block_size.val)
        ELSE
    Bind(read_u8(s, block_size.pos), LAMBDA f :
    Bind(read_u16(s, f.pos, le), LAMBDA delay_time :
    Bind(read_u8(s, delay_time.pos), LAMBDA t :
    Bind(read_u8(s, t.pos), LAMBDA z :
        IF z.val # 0
        THEN Fail("Err", "Error: block terminator not found for Graphic Control Extension", 0)
        ELSE Okv([tag |-> "GraphicControlExtension",
                  disposal_method |-> DisposalMethod(Shr(BitAnd(f.val, 28), 2)),
                  user_input_expected |-> Shr(BitAnd(f.val, 2), 1) = 1,
                  transparent_color_index_available |-> BitAnd(f.val, 1) = 1,
                  delay_time |-> delay_time.val,
                  transparent_color_index |-> t.val], z.pos))))))

\* read_plain_text_extension, lines 447-480
read_plain_text_extension(s, p, le) ==
    Bind(read_u8(s, p), LAMBDA block_size :
        IF block_size.val # 12
        THEN Fail("Err", "Error: invalid Plain Text Extension block size", block_size.val)
        ELSE
    Bind(read_u16(s, block_size.pos, le), LAMBDA l :
    Bind(read_u16(s, l.pos, le), LAMBDA t :
    Bind(read_u16(s, t.pos, le), LAMBDA w :
    Bind(read_u16(s, w.pos, le), LAMBDA h :
    Bind(read_u8(s, h.pos), LAMBDA cw :
    Bind(read_u8(s, cw.pos), LAMBDA ch :
    Bind(read_u8(s, ch.pos), LAMBDA fg :
    Bind(read_u8(s, fg.pos), LAMBDA bg :
    Bind(read_data_sub_blocks(s, bg.pos), LAMBDA d :
        IF ~Utf8Valid(d.val) THEN Fail("Err", "Error: invalid utf-8 sequence", 0)
        ELSE Okv([tag |-> "PlainTextExtension",
                  text_grid_left_pos |-> l.val,
                  text_grid_top_pos |-> t.val,
                  text_grid_width |-> w.val,
                  text_grid_height |-> h.val,
                  char_cell_width |-> cw.val,
                  char_cell_height |-> ch.val,
                  text_fg_color_index |-> fg.val,
                  text_bg_color_index |-> bg.val,
                  plain_text_data |-> d.val], d.pos)))))))))))

\* the block that follows a block type, the match of lines 146-184
read_block(s, p, le, type) ==
    IF type.tag = "TableBasedImage" THEN read_table_based_image(s, p, le)
    ELSE IF type.tag = "ApplicationExtension" THEN read_application_extension(s, p)
    ELSE IF type.tag = "CommentExtension" THEN read_comment_extension(s, p)
    ELSE IF type.tag = "GraphicControlExtension" THEN read_graphic_control_extension(s, p, le)
    ELSE IF type.tag = "PlainTextExtension" THEN read_plain_text_extension(s, p, le)
    ELSE IF type.tag = "UnknownExtension"
         THEN Fail("Err", "Error: unknown extension type", type.x)
    ELSE Fail("Err", "Error: unknown block type", type.x)

\* Parser::parse, lines 137-140: the header and the signature check
ParseHeader ==
    /\ gpc = "header"
    /\ LET r == read_header(src, pos)
       IN  IF ~r.ok
           THEN /\ parse_ret' = r.kind
                /\ parse_err' = r.err
                /\ gpc' = "parsed"
                /\ UNCHANGED <<pos, header>>
           ELSE IF r.val.sig # GIF
           THEN /\ parse_ret' = "Err"
                /\ parse_err' = "Error: file is not a GIF"
                /\ gpc' = "parsed"
                /\ pos' = r.pos
                /\ header' = r.val
           ELSE /\ gpc' = "lsd"
                /\ pos' = r.pos
                /\ header' = r.val
                /\ UNCHANGED <<parse_ret, parse_err>>
    /\ UNCHANGED <<src, file_blocks, host_little_endian, logical_screen_descriptor, data_blocks>>
    /\ UNCHANGED <<dvars, rvars, lvars, ovars, hvars, pvars, codes_per_step, compositor_vars>>

\* Parser::parse, line 142
ParseLogicalScreenDescriptor ==
    /\ gpc = "lsd"
    /\ LET r == read_logical_screen_descriptor(src, pos, host_little_endian)
       IN  IF ~r.ok
           THEN /\ parse_ret' = r.kind
                /\ parse_err' = r.err
                /\ gpc' = "parsed"
                /\ UNCHANGED <<pos, logical_screen_descriptor>>
           ELSE /\ gpc' = "blocks"
                /\ pos' = r.pos
                /\ logical_screen_descriptor' = r.val
                /\ UNCHANGED <<parse_ret, parse_err>>
    /\ UNCHANGED <<src, file_blocks, host_little_endian, header, data_blocks>>
    /\ UNCHANGED <<dvars, rvars, lvars, ovars, hvars, pvars, codes_per_step, compositor_vars>>

\* Parser::parse, lines 145-190: one iteration of the loop over the blocks, or
\* the return after the trailer
ParseBlock ==
    /\ gpc = "blocks"
    /\ LET type == read_block_type(src, pos)
           r == read_block(src, type.pos, host_little_endian, type.val)
       IN  IF ~type.ok
           THEN /\ parse_ret' = type.kind
                /\ parse_err' = type.err
                /\ gpc' = "parsed"
                /\ UNCHANGED <<pos, data_blocks>>
           ELSE IF type.val.tag = "Trailer"
           THEN /\ parse_ret' = "Ok"
                /\ gpc' = "parsed"
                /\ pos' = type.pos
                /\ UNCHANGED <<parse_err, data_blocks>>
           ELSE IF ~r.ok
           THEN /\ parse_ret' = r.kind
                /\ parse_err' = r.err
                /\ gpc' = "parsed"
                /\ pos' = type.pos
                /\ UNCHANGED data_blocks
           ELSE /\ data_blocks' = Append(data_blocks, r.val)
                /\ pos' = r.pos
                /\ UNCHANGED <<gpc, parse_ret, parse_err>>
    /\ UNCHANGED <<src, file_blocks, host_little_endian, header, logical_screen_descriptor>>
    /\ UNCHANGED <<dvars, rvars, lvars, ovars, hvars, pvars, codes_per_step, compositor_vars>>

Parse == ParseHeader \/ ParseLogicalScreenDescriptor \/ ParseBlock

-----------------------------------------------------------------------------
(* Frame compositor and load: this code is not among the source files; it  *)
(* follows sections 4.5 and 4.6 of the specification                       *)

\* step 1: the local table if present, else the global table
ActiveColorTable(block, lsd) ==
    IF block.local_color_table.some THEN block.local_color_table
    ELSE lsd.global_color_table

\* step 2: the values of the pending GCE, or the defaults
GceOrDefaults(gce) ==
    IF gce.some
    THEN [transparent_flag |-> gce.val.transparent_color_index_available,
          transparent_index |-> gce.val.transparent_color_index,
          disposal_method |-> gce.val.disposal_method,
          delay_time |-> gce.val.delay_time]
    ELSE [transparent_flag |-> FALSE,
          transparent_index |-> 0,
          disposal_method |-> "Unspecified",
          delay_time |-> 0]

\* step 4: the pixels of the sub-image, transparent ones as None
MapPixels(indices, cols, g) ==
    [j \in 1..Len(indices) |->
        IF g.transparent_flag /\ indices[j] = g.transparent_index
        THEN NoneOf ELSE SomeOf(cols[j])]

\* step 5: the rows of the four passes, in the order the data holds them
PassRows(start, step, h) ==
    [k \in 1..((h - start + step - 1) \div step) |-> start + (k - 1) * step]

InterlacedRows(h) ==
    (IF h > 0 THEN PassRows(0, 8, h) ELSE <<>>)
    \o (IF h > 4 THEN PassRows(4, 8, h) ELSE <<>>)
    \o (IF h > 2 THEN PassRows(2, 4, h) ELSE <<>>)
    \o (IF h > 1 THEN PassRows(1, 2, h) ELSE <<>>)

Deinterlace(pixels, w, h) ==
    LET rows == InterlacedRows(h)
        DataRow(y) == CHOOSE k \in 1..Len(rows) : rows[k] = y
    IN  [j \in 1..(w * h) |->
            pixels[(DataRow((j - 1) \div w) - 1) * w + ((j - 1) % w) + 1]]

\* a full-screen fill of palette[background_color_index]
BackgroundFill(lsd, palette) ==
    [j \in 1..(lsd.width * lsd.height) |-> palette[lsd.background_color_index + 1]]

\* step 6: the buffer the sub-image is drawn on
BaseBuffer(g, lsd, palette, done, snap) ==
    IF done = <<>> THEN BackgroundFill(lsd, palette)
    ELSE IF g.disposal_method = "RestoreToBackgroundColor" THEN BackgroundFill(lsd, palette)
    ELSE IF g.disposal_method = "RestoreToPrevious" THEN snap.val
    ELSE done[Len(done)].colors

\* step 7: the sub-image drawn at (left, top); transparent pixels leave the
\* pixel beneath
Blit(base, pixels, d, lsd) ==
    [j \in 1..Len(base) |->
        LET x == (j - 1) % lsd.width
            y == (j - 1) \div lsd.width
            inside == /\ x >= d.left /\ x < d.left + d.width
                      /\ y >= d.top /\ y < d.top + d.height
            px == pixels[(y - d.top) * d.width + (x - d.left) + 1]
        IN  IF inside /\ px.some THEN px.val ELSE base[j]]

\* load gives back what the parser failed with
LoadParsed ==
    /\ gpc = "parsed"
    /\ IF parse_ret = "Ok"
       THEN /\ gpc' = "compose"
            /\ block_i' = 1
            /\ UNCHANGED <<load_ret, load_err>>
       ELSE /\ gpc' = "done"
            /\ load_ret' = parse_ret
            /\ load_err' = parse_err
            /\ UNCHANGED block_i
    /\ UNCHANGED <<last_gce, frames, snapshot, image, gif>>
    /\ UNCHANGED <<dvars, rvars, lvars, ovars, hvars, pvars, codes_per_step, parser_vars>>

\* a block that is not an image: a GCE is kept for the next image, a plain
\* text block uses the pending GCE up, the others are passed over
ComposeOther ==
    /\ gpc = "compose"
    /\ block_i <= Len(data_blocks)
    /\ data_blocks[block_i].tag # "TableBasedImage"
    /\ last_gce' = IF data_blocks[block_i].tag = "GraphicControlExtension"
                   THEN SomeOf(data_blocks[block_i])
                   ELSE IF data_blocks[block_i].tag = "PlainTextExtension"
                   THEN NoneOf
                   ELSE last_gce
    /\ block_i' = block_i + 1
    /\ UNCHANGED <<gpc, frames, snapshot, image, load_ret, load_err, gif>>
    /\ UNCHANGED <<dvars, rvars, lvars, ovars, hvars, pvars, codes_per_step, parser_vars>>

\* steps 1-3 for an image block: the color table is chosen and a decompressor
\* is made for the image data (Decompressor::new, decompressor.rs:13-26)
BeginImage ==
    /\ gpc = "compose"
    /\ block_i <= Len(data_blocks)
    /\ data_blocks[block_i].tag = "TableBasedImage"
    /\ LET block == data_blocks[block_i]
           table == ActiveColorTable(block, logical_screen_descriptor)
           m == block.image_data.lzw_min_code_size
       IN  IF ~table.some
           THEN /\ gpc' = "done"
                /\ load_ret' = "Err"
                /\ load_err' = "MissingColorTable"
                /\ UNCHANGED <<image, dvars, rvars, lvars, ovars>>
           ELSE /\ gpc' = "image"
                /\ image' = block
                /\ data_sub_blocks' = block.image_data.data_sub_blocks
                /\ color_table' = table.val
                /\ lzw_min_code_size' = m
                /\ clear_code' = NewClearCode(table.val, m)
                /\ code_table' = <<>>
                /\ code_size' = InitialCodeSize(m)
                /\ data' = <<>>
                /\ index' = 0
                /\ remaining_bits' = 8
                /\ result' = <<>>
                /\ prev' = 0
                /\ pc' = "start"
                /\ ret' = "none"
                /\ err' = ""
                /\ colors' = <<>>
                /\ UNCHANGED <<load_ret, load_err>>
    /\ UNCHANGED <<block_i, last_gce, frames, snapshot, gif>>
    /\ UNCHANGED <<hvars, pvars, codes_per_step, parser_vars>>

\* steps 3-9 for an image block, once its data is decompressed
FinishImage ==
    /\ gpc = "image"
    /\ pc = "done"
    /\ LET d == image.image_descriptor
           lsd == logical_screen_descriptor
           g == GceOrDefaults(last_gce)
           px == MapPixels(result, colors, g)
           pixels == IF d.interlace_flag THEN Deinterlace(px, d.width, d.height) ELSE px
           base == BaseBuffer(g, lsd, color_table, frames, snapshot)
           Failed(kind, e) ==
               /\ gpc' = "done"
               /\ load_ret' = kind
               /\ load_err' = e
               /\ UNCHANGED <<block_i, last_gce, frames, snapshot>>
       IN  IF ret # "Ok" THEN Failed(ret, err)
           ELSE IF Len(result) # d.width * d.height THEN Failed("Err", "DeinterlaceSizeMismatch")
           ELSE IF g.disposal_method = "Undefined" THEN Failed("Err", "DisposalUndefined")
           ELSE IF d.left + d.width > lsd.width \/ d.top + d.height > lsd.height
                THEN Failed("Err", "image outside the logical screen")
           ELSE IF lsd.background_color_index >= Len(color_table)
                THEN Failed("Err", "background color index outside the color table")
           ELSE /\ frames' = Append(frames, [colors |-> Blit(base, pixels, d, lsd),
                                             delay_time |-> g.delay_time])
                /\ snapshot' = SomeOf(IF frames = <<>>
                                      THEN BackgroundFill(lsd, color_table)
                                      ELSE frames[Len(frames)].colors)
                /\ last_gce' = NoneOf
                /\ block_i' = block_i + 1
                /\ gpc' = "compose"
                /\ UNCHANGED <<load_ret, load_err>>
    /\ pc' = "idle"
    /\ UNCHANGED <<image, gif>>
    /\ UNCHANGED <<dvars, rvars, lvars, ret, err, colors, hvars, pvars, codes_per_step,
                   parser_vars>>

\* load returns the Gif once every block is composited
LoadReturn ==
    /\ gpc = "compose"
    /\ block_i > Len(data_blocks)
    /\ gpc' = "done"
    /\ load_ret' = "Ok"
    /\ gif' = [width |-> logical_screen_descriptor.width,
               height |-> logical_screen_descriptor.height,
               image_frames |-> frames]
    /\ UNCHANGED <<block_i, last_gce, frames, snapshot, image, load_err>>
    /\ UNCHANGED <<dvars, rvars, lvars, ovars, hvars, pvars, codes_per_step, parser_vars>>

Load ==
    \/ Parse
    \/ LoadParsed
    \/ ComposeOther
    \/ BeginImage
    \/ Decompress
    \/ FinishImage
    \/ LoadReturn

-----------------------------------------------------------------------------
(* Files                                                                   *)

\* the 68-byte single-frame file
S3 ==
    <<71, 73, 70, 56, 57, 97, 10, 0, 10, 0, 145, 0, 0,
      255, 255, 255, 255, 0, 0, 0, 0, 255, 0, 0, 0,
      33, 249, 4, 0, 0, 0, 0, 0,
      44, 0, 0, 0, 0, 10, 0, 10, 0, 0,
      2, 22>> \o S2Data \o <<0, 59>>

\* the same screen with a comment and a 2x1 image whose data restarts the
\* dictionary with a second clear code: CLEAR 1 CLEAR 1 EOI
RestartGif ==
    <<71, 73, 70, 56, 57, 97, 10, 0, 10, 0, 145, 0, 0,
      255, 255, 255, 255, 0, 0, 0, 0, 255, 0, 0, 0,
      33, 254, 2, 104, 105, 0,
      44, 0, 0, 0, 0, 2, 0, 1, 0, 0,
      2, Len(Stream(2, <<4, 1, 4, 1, 5>>))>> \o Stream(2, <<4, 1, 4, 1, 5>>) \o <<0, 59>>

Prefixes(f) == {SubSeq(f, 1, k) : k \in 0..Len(f)}

Files == Prefixes(S3) \cup {RestartGif}

\* a parser over the bytes f, built for a machine of byte order le, about to
\* run the step `at`; no decompressor exists yet
ParserAt(f, le, at) ==
    /\ src = f
    /\ pos = 0
    /\ host_little_endian = le
    /\ gpc = at
    /\ parse_ret = "none"
    /\ parse_err = ""
    /\ header = <<>>
    /\ logical_screen_descriptor = <<>>
    /\ data_blocks = <<>>
    /\ block_i = 0
    /\ last_gce = NoneOf
    /\ frames = <<>>
    /\ snapshot = NoneOf
    /\ image = <<>>
    /\ load_ret = "none"
    /\ load_err = ""
    /\ gif = <<>>
    /\ codes_per_step = 1
    /\ data_sub_blocks = <<>>
    /\ color_table = <<>>
    /\ lzw_min_code_size = 0
    /\ clear_code = 0
    /\ code_table = <<>>
    /\ code_size = 0
    /\ data = <<>>
    /\ index = 0
    /\ remaining_bits = 8
    /\ result = <<>>
    /\ prev = 0
    /\ pc = "idle"
    /\ ret = "none"
    /\ err = ""
    /\ colors = <<>>
    /\ rd_bits = 0
    /\ rd_ret = None
    /\ packed = <<>>
    /\ values = <<>>

\* the state when load is called on the file f, on a little-endian machine
LoadOf(f) == ParserAt(f, TRUE, "header")

\* the first bytes of a file: signature and version
Headers ==
    {<<71, 73, 70, 56, 57, 97>>,
     <<71, 73, 70, 56, 55, 97>>,
     <<66, 77, 70, 56, 57, 97>>,
     <<255, 73, 70, 56, 57, 97>>,
     <<71, 73, 70, 56, 57, 255>>}

\* the 10x10 logical screen of S3 with its global color table of four colors
ScreenBytes ==
    <<10, 0, 10, 0, 145, 0, 0, 255, 255, 255, 255, 0, 0, 0, 0, 255, 0, 0, 0>>

\* blocks a parser accepts
GoodBlocks == {"gce", "gce_delay", "image", "comment", "plain_text", "application"}

\* blocks with text that is not UTF-8, an unknown tag, an unknown extension
\* label, a wrong block size, a missing terminator
BadBlocks ==
    {"comment_latin1", "plain_text_latin1", "application_latin1", "application_auth_latin1",
     "unknown_tag", "unknown_label", "gce_size", "gce_unterminated"}

BlockKinds == GoodBlocks \cup BadBlocks

\* the bytes of a block
BlockBytes(kind) ==
    CASE kind = "gce" -> <<33, 249, 4, 0, 0, 0, 0, 0>>
      [] kind = "gce_delay" -> <<33, 249, 4, 4, 7, 0, 0, 0>>
      [] kind = "image" ->
            <<44, 0, 0, 0, 0, 2, 0, 1, 0, 0, 2, Len(Stream(2, <<4, 1, 4, 1, 5>>))>>
            \o Stream(2, <<4, 1, 4, 1, 5>>) \o <<0>>
      [] kind = "s3_image" ->
            <<44, 0, 0, 0, 0, 10, 0, 10, 0, 0, 2, 22>> \o S2Data \o <<0>>
      [] kind = "comment" -> <<33, 254, 2, 104, 105, 0>>
      [] kind = "comment_latin1" -> <<33, 254, 1, 233, 0>>
      [] kind = "plain_text" ->
            <<33, 1, 12, 0, 0, 0, 0, 2, 0, 1, 0, 8, 8, 1, 0, 1, 104, 1, 105, 0>>
      [] kind = "plain_text_latin1" ->
            <<33, 1, 12, 0, 0, 0, 0, 2, 0, 1, 0, 8, 8, 1, 0, 1, 233, 0>>
      [] kind = "application" ->
            <<33, 255, 11, 78, 69, 84, 83, 67, 65, 80, 69, 50, 46, 48, 3, 1, 0, 0, 0>>
      [] kind = "application_latin1" ->
            <<33, 255, 11, 78, 69, 84, 83, 67, 65, 80, 233, 50, 46, 48, 3, 1, 0, 0, 0>>
      [] kind = "application_auth_latin1" ->
            <<33, 255, 11, 78, 69, 84, 83, 67, 65, 80, 69, 50, 46, 233, 0>>
      [] kind = "unknown_tag" -> <<7>>
      [] kind = "unknown_label" -> <<33, 119>>
      [] kind = "gce_size" -> <<33, 249, 5, 0, 0, 0, 0, 0, 0>>
      [] kind = "gce_unterminated" -> <<33, 249, 4, 0, 0, 0, 0, 1>>

RECURSIVE BlocksBytes(_)
BlocksBytes(blocks) ==
    IF blocks = <<>> THEN <<>> ELSE BlockBytes(Head(blocks)) \o BlocksBytes(Tail(blocks))

\* a file: header, logical screen, blocks, trailer
FileOf(hdr, blocks) == hdr \o ScreenBytes \o BlocksBytes(blocks) \o <<59>>

\* the blocks of S3
S3Blocks == <<"gce", "s3_image">>

\* files of three blocks: two GCEs before one image, one GCE before two images
ThreeBlockFiles == {<<"gce", "gce_delay", "image">>, <<"gce_delay", "image", "image">>}

\* the files loaded: S3 and the restart file, whole or cut short; every file of
\* up to MaxBlocks blocks under every header; every file of good blocks cut
\* short anywhere
InitGif ==
    \/ \E f \in Files :
         /\ LoadOf(f)
         /\ file_blocks = IF f = RestartGif THEN <<"comment", "image">> ELSE S3Blocks
    \/ \E hdr \in Headers, blocks \in SeqsUpTo(BlockKinds, MaxBlocks) :
         /\ LoadOf(FileOf(hdr, blocks))
         /\ file_blocks = blocks
    \/ \E blocks \in ThreeBlockFiles :
         /\ LoadOf(FileOf(<<71, 73, 70, 56, 57, 97>>, blocks))
         /\ file_blocks = blocks
    \/ \E blocks \in SeqsUpTo(GoodBlocks, MaxBlocks) :
         \E f \in Prefixes(FileOf(<<71, 73, 70, 56, 57, 97>>, blocks)) :
           /\ LoadOf(f)
           /\ file_blocks = blocks

NextGif == Load

SpecGif == InitGif /\ [][NextGif]_vars

-----------------------------------------------------------------------------
(* Scenario S1: the reads of test_code_reader_read                         *)

\* the data of test_code_reader_read, lines 276-279
S1Data == <<93, 93, 93, 93, 93, 245, 182, 102, 182, 102, 84>>

\* the widths read, lines 283-295
S1Widths == <<3, 3, 3, 4, 4, 7, 8, 8, 8, 16, 3, 9, 12>>

\* the values the test asserts, lines 283-295
S1Asserted == <<5, 3, 5, 14, 10, 46, 93, 93, 245, 26294, 6, 214, 1350>>

\* the values the scenario lists, before masking; the tenth is 0x6636B6B6
S1Listed == <<5, 3, 5, 14, 10, 46, 93, 93, 245, 1714861750, 6, 214, 1350>>

\* the scenario as (width, listed value) pairs
S1Scenario == [i \in 1..Len(S1Widths) |-> <<S1Widths[i], S1Listed[i]>>]

\* the scenario on the data of the test and on the same data cut short
InitS1 == \E d \in Prefixes(S1Data) : NewReader(d, S1Scenario)

SpecS1 == InitS1 /\ [][NextPack]_vars

\* C11 as stated: on the S1 bytes the successive reads yield the listed values,
\* each masked to its width (so the 16-bit read yields 0x6636B6B6 mod 2^16).
C11_S1ListedValuesMasked ==
    (pc = "reader" /\ data = S1Data) =>
        \A i \in 1..Len(values) : values[i] = Some(packed[i][2] % Pow2(packed[i][1]))

\* C11 as amended: on the S1 bytes the successive reads yield the values the
\* test asserts; the 16-bit read yields 0x66B6, the bytes 0xB6 and 0x66 taken
\* low byte first, and every other read yields the listed value.
C11_S1AssertedValues ==
    (pc = "reader" /\ data = S1Data) =>
        \A i \in 1..Len(values) : values[i] = Some(S1Asserted[i])

\* all thirteen reads of the scenario are done
C11_Witness ==
    /\ pc = "reader"
    /\ data = S1Data
    /\ packed = S1Scenario
    /\ Len(values) = 13
    /\ values[10] = Some(26294)

-----------------------------------------------------------------------------
(* Claims about Parser::parse, checked under SpecGif                       *)

\* the fields of the struct TableBasedImage, parser.rs:69-74, and the tag
TableBasedImageFields == {"tag", "image_descriptor", "local_color_table", "image_data"}

\* the delay the graphic control extension of a file block holds
GceDelay(kind) == IF kind = "gce_delay" THEN 7 ELSE 0

UnexpectedEof == "Error: failed to fill whole buffer"

\* f is the beginning of g and shorter than g
StrictPrefix(f, g) == Len(f) < Len(g) /\ f = SubSeq(g, 1, Len(f))

\* the bytes of src are a well-formed GIF89a file cut short
CutShort ==
    /\ \A i \in 1..Len(file_blocks) : file_blocks[i] \in GoodBlocks \cup {"s3_image"}
    /\ StrictPrefix(src, FileOf(<<71, 73, 70, 56, 57, 97>>, file_blocks))

\* C13: for every prefix of S3 shorter than 68 bytes, and for every well-formed
\* file cut short before its trailer, parsing returns the unexpected-end-of-input
\* error, and neither a ParseResult nor a Gif, whole or partial, is produced.
C13_TruncationIsUnexpectedEof ==
    (CutShort /\ gpc \notin {"header", "lsd", "blocks"}) =>
        /\ parse_ret = "Err"
        /\ parse_err = UnexpectedEof
        /\ gpc \in {"parsed", "done"}
        /\ frames = <<>>
        /\ gif = <<>>
        /\ gpc = "done" => (load_ret = "Err" /\ load_err = UnexpectedEof)

\* S3 without its trailer byte: every block is parsed, then the source ends
C13_Witness ==
    /\ src = SubSeq(S3, 1, Len(S3) - 1)
    /\ Len(data_blocks) = 2
    /\ gpc = "done"
    /\ load_ret = "Err"

\* C14: for every input, Parser::parse ends by returning a ParseResult or an
\* error through its Result; it never panics, also when the header, the
\* application identifier or authentication code, a comment or plain text data
\* hold bytes that are not valid UTF-8.
C14_ParseNeverPanics == parse_ret # "Panic"

\* the errors parse returns for a header it rejects
NotAGif == "Error: file is not a GIF"
InvalidUtf8 == "Error: invalid utf-8 sequence"

\* C15: an input of at least 6 bytes whose first three bytes are not "GIF" is
\* rejected by the header step of parse with an error (the not-a-GIF error when
\* the six header bytes are text, the error of decoding them otherwise), with no
\* byte after the header read and no logical screen descriptor or block parsed;
\* an input that starts with "GIF87a" or "GIF89a" passes the header check and
\* parse goes on to the logical screen descriptor.
C15_SignatureChecked ==
    [][ParseHeader =>
        /\ (Len(src) >= 6 /\ SubSeq(src, 1, 3) # <<71, 73, 70>>) =>
              /\ gpc' = "parsed"
              /\ parse_ret' = "Err"
              /\ parse_err' = IF Utf8Valid(SubSeq(src, 1, 3)) /\ Utf8Valid(SubSeq(src, 4, 6))
                              THEN NotAGif ELSE InvalidUtf8
              /\ pos' <= 6
              /\ logical_screen_descriptor' = <<>>
              /\ data_blocks' = <<>>
        /\ (Len(src) >= 6 /\ SubSeq(src, 1, 6) \in {<<71, 73, 70, 56, 55, 97>>,
                                                     <<71, 73, 70, 56, 57, 97>>}) =>
              /\ gpc' = "lsd"
              /\ parse_ret' = "none"
              /\ pos' = 6
              /\ header' = [sig |-> <<71, 73, 70>>, version |-> SubSeq(src, 4, 6)]
    ]_vars

\* a file that starts with "BMF" has been rejected; nothing after its header
\* was read
C15_Witness ==
    /\ Len(src) > 6
    /\ SubSeq(src, 1, 3) = <<66, 77, 70>>
    /\ gpc = "done"
    /\ load_ret = "Err"
    /\ parse_err = NotAGif
    /\ pos = 6

\* the kind of parsed block a file block is
KindTag(kind) ==
    CASE kind \in {"gce", "gce_delay"} -> "GraphicControlExtension"
      [] kind \in {"image", "s3_image"} -> "TableBasedImage"
      [] kind = "comment" -> "CommentExtension"
      [] kind = "plain_text" -> "PlainTextExtension"
      [] kind = "application" -> "ApplicationExtension"
      [] OTHER -> "none"

\* the step of parse appended one block of the given kind, or the reader of
\* that block failed and parse returned
ParsedAs(tag) ==
    \/ /\ Len(data_blocks') = Len(data_blocks) + 1
       /\ SubSeq(data_blocks', 1, Len(data_blocks)) = data_blocks
       /\ data_blocks'[Len(data_blocks')].tag = tag
       /\ parse_ret' = "none"
       /\ gpc' = "blocks"
    \/ /\ data_blocks' = data_blocks
       /\ parse_ret' \in {"Err", "Panic"}
       /\ parse_err' \notin {"Error: unknown extension type", "Error: unknown block type"}
       /\ gpc' = "parsed"

\* parse returned the given error
Rejected(e) ==
    /\ data_blocks' = data_blocks
    /\ parse_ret' = "Err"
    /\ parse_err' = e
    /\ gpc' = "parsed"

\* C16: after the logical screen descriptor the parser repeatedly reads a tag
\* byte: 0x2C parses an image block; 0x21 parses the extension the next byte
\* selects (0xF9 GCE, 0xFE comment, 0x01 plain text, 0xFF application, any other
\* label is a parse error); 0x3B ends parsing successfully; any other tag is a
\* parse error; the parsed blocks are in the result in exactly their file order.
C16_BlockDispatch ==
    [][(ParseBlock /\ pos < Len(src)) =>
        LET tag == src[pos + 1]
            label == src[pos + 2]
        IN  IF tag = 44 THEN ParsedAs("TableBasedImage")
            ELSE IF tag = 33
            THEN pos + 1 < Len(src) =>
                   IF label = 249 THEN ParsedAs("GraphicControlExtension")
                   ELSE IF label = 254 THEN ParsedAs("CommentExtension")
                   ELSE IF label = 1 THEN ParsedAs("PlainTextExtension")
                   ELSE IF label = 255 THEN ParsedAs("ApplicationExtension")
                   ELSE Rejected("Error: unknown extension type")
            ELSE IF tag = 59
            THEN /\ parse_ret' = "Ok"
                 /\ gpc' = "parsed"
                 /\ data_blocks' = data_blocks
                 /\ Len(data_blocks) = Len(file_blocks)
                 /\ \A i \in 1..Len(data_blocks) : data_blocks[i].tag = KindTag(file_blocks[i])
            ELSE Rejected("Error: unknown block type")
    ]_vars

\* an application extension and a plain text extension parsed in file order,
\* then the trailer
C16_Witness ==
    /\ parse_ret = "Ok"
    /\ file_blocks = <<"application", "plain_text">>
    /\ Len(data_blocks) = 2
    /\ data_blocks[1].tag = "ApplicationExtension"
    /\ data_blocks[2].tag = "PlainTextExtension"

-----------------------------------------------------------------------------
(* Claims about the code width and the reserved codes, checked under Spec  *)

\* the step of the loop added an entry to the dictionary
Inserted == Len(code_table') = Len(code_table) + 1

\* the 0-based index of the entry the step added
InsertedAt == Len(code_table)

\* one iteration of the loop of decompress_until_clear
LoopIteration == UntilClearLoop /\ codes_per_step = 1

\* C17: after each reset the code width is lzw_min_code_size + 1; the width
\* increases by exactly one precisely when the decoder inserts a new entry at
\* index 2^width - 1 (and width < 12) and never otherwise; the increase takes
\* effect before the next code is read: every code is read at the width the
\* step before it left.
C17_CodeWidthRule ==
    [][/\ (DecompressBegin \/ Reset) => code_size' = lzw_min_code_size + 1
       /\ LoopIteration =>
            /\ rd_bits' = code_size
            /\ IF Inserted /\ InsertedAt = Pow2(code_size) - 1 /\ code_size < MaxCodeSize
               THEN code_size' = code_size + 1
               ELSE code_size' = code_size
       /\ (ExpectClearCode \/ UntilClearFirst) =>
            /\ rd_bits' = code_size
            /\ code_size' = code_size
       /\ DecompressReturn => code_size' = code_size
    ]_vars

\* the S2 run has widened its codes from 3 to 4 bits by the insertion of
\* entry 7 and has read the following code at 4 bits
C17_Witness ==
    /\ IsS2Run
    /\ pc = "loop"
    /\ code_size = lzw_min_code_size + 2
    /\ Len(code_table) = Pow2(code_size - 1) + 1
    /\ rd_bits = code_size
    /\ rd_ret.some

\* C18: (as stated) the decoder inserts the new entry first, and increases the
\* code width exactly when the dictionary length after the insertion equals
\* (1 << width) - 1 and width < 12.
C18_WidensWhenNewLengthIsLimit ==
    [][(LoopIteration /\ Inserted) =>
         (code_size' = code_size + 1
            <=> (Len(code_table') = Pow2(code_size) - 1 /\ code_size < MaxCodeSize))
    ]_vars

\* C18: (amended) the decoder increases the code width exactly when the
\* dictionary length before the insertion equals (1 << width) - 1, that is when
\* the length after the insertion equals 1 << width, and width < 12; the entry
\* is inserted in the same step.
C18_WidensWhenOldLengthIsLimit ==
    [][(LoopIteration /\ Inserted) =>
         /\ code_size' \in {code_size, code_size + 1}
         /\ code_size' = code_size + 1
              <=> (Len(code_table) = Pow2(code_size) - 1
                   /\ Len(code_table') = Pow2(code_size)
                   /\ code_size < MaxCodeSize)
         /\ Len(code_table') = Pow2(code_size) - 1 => code_size' = code_size
    ]_vars

\* the S2 run right after the insertion that made the dictionary 8 entries
\* long: the width went from 3 to 4 and the last code was read at 3 bits
C18_Witness ==
    /\ IsS2Run
    /\ pc = "loop"
    /\ Len(code_table) = 8
    /\ code_size = 4
    /\ rd_bits = 3

\* the dictionary holds one singleton per color, then the clear code and the
\* end of information code, and nothing else
InitialContent(table) ==
    /\ Len(table) = Len(color_table) + 2
    /\ \A i \in 1..Len(color_table) : table[i] = Indices(<<i - 1>>)
    /\ table[Len(color_table) + 1] = Single(clear_code)
    /\ table[Len(color_table) + 2] = Single(clear_code + 1)

\* the iteration of the loop read the decompressor's clear code
ClearReceived == LoopIteration /\ NextCode.some /\ NextCode.val = clear_code

\* C19: a clear code received in the middle of the stream resets the
\* dictionary to its initial content (singletons, CLEAR, END_OF_INFORMATION
\* only) and the code width to lzw_min_code_size + 1 before the next code is
\* read; the indices emitted before it stay in the output unchanged, and the
\* first code after it is emitted without adding a dictionary entry.
C19_MidStreamClearResets ==
    [][/\ ClearReceived =>
            /\ pc' = "reset"
            /\ result' = result
       /\ Reset =>
            /\ InitialContent(code_table')
            /\ code_size' = lzw_min_code_size + 1
            /\ result' = result
            /\ <<index', remaining_bits'>> = <<index, remaining_bits>>
            /\ pc' = "first"
       /\ UntilClearFirst =>
            /\ code_table' = code_table
            /\ code_size' = code_size
            /\ rd_bits' = lzw_min_code_size + 1
            /\ SubSeq(result', 1, Len(result)) = result
            /\ pc' = "loop" => result' = Append(result, rd_ret'.val)
    ]_vars

\* two indices were emitted and an entry added, a clear code emptied the
\* dictionary of it, and the code after the clear code was emitted
C19_Witness ==
    /\ pc = "loop"
    /\ Len(result) = 3
    /\ InitialContent(code_table)
    /\ code_size = lzw_min_code_size + 1
    /\ rd_ret.some
    /\ result[3] = rd_ret.val

\* the next code to be read is the decompressor's end of information code
EndOfInformationNext == NextCode.some /\ NextCode.val = clear_code + 1

\* C20: END_OF_INFORMATION terminates decoding successfully wherever it appears
\* after the leading CLEAR: both when it is the first code after a CLEAR and
\* when it follows data codes, decompress returns Ok with exactly the indices
\* emitted so far, reads no further codes and ignores any remaining bytes.
\* Stated for color tables of 2^lzw_min_code_size entries.
C20_EndOfInformationTerminates ==
    [][/\ (TableFitsMinCodeSize /\ EndOfInformationNext /\ (UntilClearFirst \/ LoopIteration))
            => (pc' = "finish" /\ result' = result)
       /\ (TableFitsMinCodeSize /\ DecompressReturn) =>
            /\ ret' = "Ok"
            /\ colors' = [j \in 1..Len(result) |-> color_table[result[j] + 1]]
            /\ <<index', remaining_bits'>> = <<index, remaining_bits>>
    ]_vars

-----------------------------------------------------------------------------
(* read_data_sub_blocks on its own: any chain of sub-blocks, whole or cut   *)
(* short, with or without bytes after it                                    *)

\* most sub-blocks of a chain
MaxSubBlocks == 2

\* payloads of sub-blocks: one byte, bytes that hold a zero, the longest payload
Payloads == {<<1>>, <<0, 7>>, <<59, 0, 0>>, [i \in 1..255 |-> i % 256]}

\* bytes that follow the chain in the source
Trailing == {<<>>, <<0>>, <<2, 33, 249>>}

\* the payloads one after the other
RECURSIVE Concat(_)
Concat(ps) == IF ps = <<>> THEN <<>> ELSE ps[1] \o Concat(Tail(ps))

\* the chain of the payloads: each behind its length byte, then the terminator
RECURSIVE ChainBody(_)
ChainBody(ps) == IF ps = <<>> THEN <<>> ELSE <<Len(ps[1])>> \o ps[1] \o ChainBody(Tail(ps))
Chain(ps) == ChainBody(ps) \o <<0>>

\* sum(len_i + 1) + 1
RECURSIVE SumLenPlusOne(_)
SumLenPlusOne(ps) == IF ps = <<>> THEN 0 ELSE Len(ps[1]) + 1 + SumLenPlusOne(Tail(ps))
ChainLen(ps) == SumLenPlusOne(ps) + 1

InitSubBlocks ==
    \E ps \in SeqsUpTo(Payloads, MaxSubBlocks), t \in Trailing :
      \E f \in Prefixes(Chain(ps) \o t) :
        /\ ParserAt(f, TRUE, "sub_blocks")
        /\ file_blocks = ps

\* a call of read_data_sub_blocks (lines 351-369) at the start of the source
ReadDataSubBlocks ==
    /\ gpc = "sub_blocks"
    /\ gpc' = "returned"
    /\ LET r == read_data_sub_blocks(src, pos)
       IN  IF r.ok
           THEN /\ parse_ret' = "Ok"
                /\ pos' = r.pos
                /\ data_blocks' = <<r.val>>
                /\ UNCHANGED parse_err
           ELSE /\ parse_ret' = r.kind
                /\ parse_err' = r.err
                /\ UNCHANGED <<pos, data_blocks>>
    /\ UNCHANGED <<src, file_blocks, host_little_endian, header, logical_screen_descriptor>>
    /\ UNCHANGED <<dvars, rvars, lvars, ovars, hvars, pvars, codes_per_step, compositor_vars>>

NextSubBlocks == ReadDataSubBlocks

SpecSubBlocks == InitSubBlocks /\ [][NextSubBlocks]_vars

\* C21: read_data_sub_blocks consumes a chain of (length byte, that many
\* payload bytes) up to and including the first zero length byte and returns
\* the concatenation of all payloads in order: it consumes exactly
\* sum(len_i + 1) + 1 bytes, leaves the reader at the byte after the
\* terminator, and returns an error if the source ends before the terminator.
C21_SubBlocksConsumedAndConcatenated ==
    gpc = "returned" =>
        IF Len(src) >= ChainLen(file_blocks)
        THEN /\ parse_ret = "Ok"
             /\ data_blocks = <<Concat(file_blocks)>>
             /\ pos = ChainLen(file_blocks)
             /\ src[pos] = 0
        ELSE /\ parse_ret = "Err"
             /\ parse_err = UnexpectedEof
             /\ data_blocks = <<>>

\* a chain of two sub-blocks, the first with zero bytes in its payload, read
\* up to its terminator with bytes left behind it
C21_Witness ==
    /\ gpc = "returned"
    /\ parse_ret = "Ok"
    /\ file_blocks = <<<<59, 0, 0>>, <<1>>>>
    /\ data_blocks = <<<<59, 0, 0, 1>>>>
    /\ pos = 7
    /\ Len(src) = 10

-----------------------------------------------------------------------------
(* Parser::parse built for either byte order: read_u16 is a transmute, so   *)
(* what it returns is fixed by the target of the build                      *)

InitHost ==
    \E le \in BOOLEAN, blocks \in SeqsUpTo(GoodBlocks, MaxBlocks) :
        /\ ParserAt(FileOf(<<71, 73, 70, 56, 57, 97>>, blocks), le, "header")
        /\ file_blocks = blocks

NextHost == Parse

SpecHost == InitHost /\ [][NextHost]_vars

\* the value of a little-endian 16-bit field whose bytes are the two at the
\* 1-based positions i and i + 1 of the source
FieldAt(i) == src[i] + 256 * src[i + 1]

\* the block the step of parse appended
NewBlock == data_blocks'[Len(data_blocks')]

\* C22: every 16-bit field read by the parser (screen and image dimensions and
\* offsets, GCE delay time, plain-text grid fields) has the value
\* lo + 256 * hi, where lo is the first and hi the second byte read, whatever
\* the byte order of the machine.
C22_U16FieldsAreLittleEndian ==
    [][/\ (ParseLogicalScreenDescriptor /\ gpc' = "blocks") =>
            /\ logical_screen_descriptor'.width = FieldAt(pos + 1)
            /\ logical_screen_descriptor'.height = FieldAt(pos + 3)
       /\ (ParseBlock /\ Len(data_blocks') = Len(data_blocks) + 1) =>
            /\ NewBlock.tag = "TableBasedImage" =>
                 /\ NewBlock.image_descriptor.left = FieldAt(pos + 2)
                 /\ NewBlock.image_descriptor.top = FieldAt(pos + 4)
                 /\ NewBlock.image_descriptor.width = FieldAt(pos + 6)
                 /\ NewBlock.image_descriptor.height = FieldAt(pos + 8)
            /\ NewBlock.tag = "GraphicControlExtension" =>
                 NewBlock.delay_time = FieldAt(pos + 5)
            /\ NewBlock.tag = "PlainTextExtension" =>
                 /\ NewBlock.text_grid_left_pos = FieldAt(pos + 4)
                 /\ NewBlock.text_grid_top_pos = FieldAt(pos + 6)
                 /\ NewBlock.text_grid_width = FieldAt(pos + 8)
                 /\ NewBlock.text_grid_height = FieldAt(pos + 10)
    ]_vars

-----------------------------------------------------------------------------
(* Implicit invariants of Decompressor and CodeReader                      *)

\* C23: for every code stream, valid or malformed, whenever
\* decompress_until_clear indexes the dictionary with the previous code, that
\* code is smaller than the current dictionary length, so decompress always
\* ends by returning Ok or Err and never aborts on an out-of-range dictionary
\* access.
C23_PrevCodeInDictionary ==
    /\ pc = "loop" => prev < Len(code_table)
    /\ pc = "done" => ~(ret = "Panic" /\ err = "code index out of bounds")

\* the streams of Spec and the streams that fill the dictionary
InitBounds == Init \/ InitSat

SpecBounds == InitBounds /\ [][Next]_vars

\* most entries the dictionary may hold
MaxEntries == 4096

\* the positions of decompress at which the next thing done is a read of a code
ReadsNext(at) == at \in {"expect_clear", "saturated", "first", "loop"}

\* the bounds on the width w and the dictionary length n, at position at
WithinBounds(w, n, at) ==
    /\ w >= lzw_min_code_size + 1
    /\ w <= MaxCodeSize
    /\ n <= MaxEntries
    /\ ReadsNext(at) => n < Pow2(w)

\* the bounds hold before each of the next n iterations of the loop and after
\* the last of them
RECURSIVE RunWithinBounds(_, _, _, _)
RunWithinBounds(s, d, clear, n) ==
    /\ WithinBounds(s.code_size, Len(s.code_table), s.pc)
    /\ (n = 0 \/ s.pc # "loop") \/ RunWithinBounds(LoopStep(s, d, clear), d, clear, n - 1)

\* C24: for lzw_min_code_size m in 2..8 with a color table of 2^m entries, in
\* every state reachable during decompress the code width stays within
\* m+1..12, the dictionary never holds more than 4096 entries, and at every
\* code read the dictionary length is strictly less than 2^width.
C24_WidthAndDictionaryBounded ==
    [][(TableFitsMinCodeSize /\ lzw_min_code_size \in 2..8 /\ pc # "start") =>
          /\ WithinBounds(code_size, Len(code_table), pc)
          /\ WithinBounds(code_size', Len(code_table'), pc')
          /\ UntilClearLoop => RunWithinBounds(LoopState, data, clear_code, codes_per_step)
    ]_vars

\* the dictionary is full at width 12 and the next code is about to be read
C24_Witness ==
    /\ TableFitsMinCodeSize
    /\ pc = "saturated"
    /\ code_size = MaxCodeSize
    /\ Len(code_table) = MaxEntries - 1

\* the number of bits of the data that lie before the reader's position
Cursor(idx, rem) == 8 * idx + (8 - rem)

\* the fields of the reader are in their ranges
CursorInRange(d, idx, rem) == idx <= Len(d) /\ rem >= 1 /\ rem <= 8

\* C25: in every reachable state of a CodeReader index <= data length and
\* 1 <= remaining_bits <= 8; a read that returns None leaves the reader
\* exhausted (the bits that were still unread are discarded), so every later
\* read of any width >= 1 also returns None; a successful read advances the
\* cursor by exactly width bits.
C25_ReaderCursor ==
    [][ReaderRead =>
         /\ CursorInRange(data, index, remaining_bits)
         /\ CursorInRange(data', index', remaining_bits')
         /\ IF rd_ret'.some
            THEN Cursor(index', remaining_bits') = Cursor(index, remaining_bits) + rd_bits'
            ELSE /\ index' = Len(data)
                 /\ UnreadBits(data', index', remaining_bits') = 0
                 /\ \A w \in ReadWidths : ~Read(data', index', remaining_bits', w).ret.some
    ]_vars

\* of two bytes a first read took 12 bits; a second read of 12 bits returned
\* None and the 4 bits that were left are gone
C25_Witness ==
    /\ pc = "reader"
    /\ Len(data) = 2
    /\ rd_bits = 12
    /\ ~rd_ret.some
    /\ index = 2
    /\ remaining_bits = 8

=============================================================================
